---- MODULE Spec2Model ----
(***************************************************************************)
(* Model of hooks/secret_scan.py: one run of the pre-commit secret scan.   *)
(*                                                                         *)
(* The environment of a run (the patterns file, the availability of the    *)
(* YAML parser, git's answer, the working tree) is fixed by Init; the run  *)
(* itself is main(), followed statement by statement through pc.           *)
(*                                                                         *)
(* Text is a sequence of one-character tokens.  A rule is a one-character  *)
(* regular expression: "k" and "x" match that character, "(" does not      *)
(* compile (re.error: missing ), unterminated subpattern).                 *)
(***************************************************************************)
EXTENDS Integers, Sequences, FiniteSets, TLC

VARIABLES
    fileExists,     \* PATTERNS_FILE.exists()
    yamlAvailable,  \* the module-level import of yaml succeeded
    doc,            \* what reading and yaml.safe_load-ing the file gives
    gitRc,          \* returncode of git diff --cached
    gitOut,         \* the stripped non-blank lines of its stdout
    files,          \* working tree: path -> text, or Unreadable
    pc,             \* position in main()
    patterns,       \* main: patterns
    compiled,       \* main: compiled
    staged,         \* main: staged
    idx,            \* position of the for loop in staged (1-based)
    secrets_found,  \* main: secrets_found, a dict in insertion order
    matches,        \* main: matches, what scan_file returned last
    scanned,        \* paths scan_file was called with, in call order
    output,         \* lines printed to stdout
    exit_status     \* process exit status, -1 while running

env  == <<fileExists, yamlAvailable, doc, gitRc, gitOut, files>>
vars == <<fileExists, yamlAvailable, doc, gitRc, gitOut, files, pc, patterns,
          compiled, staged, idx, matches, secrets_found, scanned, output,
          exit_status>>

(***************************************************************************)
(* Bounds                                                                  *)
(***************************************************************************)
MaxStaged == 2

MaxTextLen == 3

MaxRules == 2

(***************************************************************************)
(* Sequences                                                               *)
(***************************************************************************)
Range(s) == {s[i] : i \in 1..Len(s)}

SeqsUpTo(S, n) == UNION {[1..m -> S] : m \in 0..n}

\* Python slice s[a:b] with 0 <= a, 0-based, b exclusive
Slice(s, a, b) ==
    LET e == IF b < Len(s) THEN b ELSE Len(s)
    IN  IF e <= a THEN <<>> ELSE SubSeq(s, a + 1, e)

(***************************************************************************)
(* Rules                                                                   *)
(***************************************************************************)
\* Stand-in for the eight built-in regular expressions.
DEFAULT_PATTERNS == <<"k">>

\* re.compile(p) succeeds
Compiles(p) == p # "("

\* re.compile(p): a compiled pattern object
re_compile(p) == [compiled |-> TRUE, src |-> p]

\* a pattern given as a string
re_string(p) == [compiled |-> FALSE, src |-> p]

MULTILINE == {"MULTILINE"}

\* re._compile, reached from re.finditer(pat, text, flags=...): a pattern
\* that is already compiled cannot be given flags (ValueError).
FinditerRaises(pat, flags) == pat.compiled /\ flags # {}

\* re.finditer: the 0-based start of every match, left to right
Finditer(pat, text) ==
    LET hits == {i \in 1..Len(text) : text[i] = pat.src}
        RECURSIVE Asc(_)
        Asc(S) == IF S = {} THEN <<>>
                  ELSE LET m == CHOOSE a \in S : \A b \in S : a <= b
                       IN  <<m - 1>> \o Asc(S \ {m})
    IN  Asc(hits)

(***************************************************************************)
(* Text                                                                    *)
(***************************************************************************)
\* a path Path.read_text fails on (missing, a directory, no permission)
Unreadable == [readable |-> FALSE, text |-> <<>>]

\* a path Path.read_text returns t for
File(t) == [readable |-> TRUE, text |-> t]

\* where str.splitlines breaks a line: \n and, among others, form feed
LineBreaks == {"NL", "FF"}

\* what str.strip removes
Whitespace == {"SP", "NL", "FF"}

\* text.count(ch, lo, hi)
Count(text, ch, lo, hi) == Cardinality({i \in (lo + 1)..hi : text[i] = ch})

\* text.splitlines(): no empty last line after a final line break
RECURSIVE SplitFrom(_, _, _)
SplitFrom(text, i, cur) ==
    IF i > Len(text) THEN (IF cur = <<>> THEN <<>> ELSE <<cur>>)
    ELSE IF text[i] \in LineBreaks
         THEN <<cur>> \o SplitFrom(text, i + 1, <<>>)
         ELSE SplitFrom(text, i + 1, Append(cur, text[i]))

splitlines(text) == SplitFrom(text, 1, <<>>)

\* line.strip()
RECURSIVE strip(_)
strip(line) ==
    IF line = <<>> THEN <<>>
    ELSE IF Head(line) \in Whitespace THEN strip(Tail(line))
    ELSE IF line[Len(line)] \in Whitespace
         THEN strip(SubSeq(line, 1, Len(line) - 1))
         ELSE line

(***************************************************************************)
(* scan_file                                                               *)
(***************************************************************************)
\* lines 71-74: the finding of the match that starts at 0-based start
Finding(text, start, pat) ==
    LET line_no == Count(text, "NL", 0, start) + 1
        lines   == splitlines(text)
        \* lines[line_no - 1] counts from 0, a TLA+ sequence from 1
        snippet == IF 0 <= line_no - 1 /\ line_no - 1 < Len(lines)
                   THEN strip(lines[line_no]) ELSE <<>>
    IN  [line |-> line_no, snippet |-> snippet, pat |-> pat.src]

\* the findings of one rule, in match order
PatFindings(text, pat) ==
    LET ms == Finditer(pat, text)
    IN  [j \in 1..Len(ms) |-> Finding(text, ms[j], pat)]

\* the loop over compiled_patterns from position i on; an exception of
\* re.finditer leaves scan_file
RECURSIVE ScanFrom(_, _, _)
ScanFrom(text, compiled_patterns, i) ==
    IF i > Len(compiled_patterns) THEN [raised |-> FALSE, findings |-> <<>>]
    ELSE IF FinditerRaises(compiled_patterns[i], MULTILINE)
         THEN [raised |-> TRUE, findings |-> <<>>]
         ELSE LET rest == ScanFrom(text, compiled_patterns, i + 1)
              IN  [raised   |-> rest.raised,
                   findings |-> IF rest.raised THEN <<>>
                                ELSE PatFindings(text, compiled_patterns[i])
                                     \o rest.findings]

\* scan_file without the try around read_text: the read error escapes
scan_file_NoExcept(path, compiled_patterns) ==
    IF ~files[path].readable
    THEN [raised |-> TRUE, findings |-> <<>>]
    ELSE ScanFrom(files[path].text, compiled_patterns, 1)

scan_file(path, compiled_patterns) ==
    IF ~files[path].readable
    THEN [raised |-> FALSE, findings |-> <<>>]
    ELSE ScanFrom(files[path].text, compiled_patterns, 1)

(***************************************************************************)
(* EXT_RE                                                                  *)
(***************************************************************************)
Extensions ==
    { <<"p","y">>, <<"j","a","v","a">>, <<"j","s">>, <<"t","s">>,
      <<"j","s","o","n">>, <<"y","a","m","l">>, <<"y","m","l">>,
      <<"e","n","v">>, <<"p","r","o","p","e","r","t","i","e","s">>,
      <<"s","h">> }

LowerOf == [Y |-> "y", M |-> "m", L |-> "l", P |-> "p", S |-> "s", H |-> "h"]

Lower(c) == IF c \in DOMAIN LowerOf THEN LowerOf[c] ELSE c

Fold(s) == [i \in 1..Len(s) |-> Lower(s[i])]

\* EXT_RE compiled without re.I
EXT_RE_search_CaseSensitive(f) ==
    \E i \in 1..Len(f) :
        /\ f[i] = "."
        /\ SubSeq(f, i + 1, Len(f)) \in Extensions

\* EXT_RE.search(f): a dot, then one alternative, then the end; re.I
EXT_RE_search(f) ==
    \E i \in 1..Len(f) :
        /\ f[i] = "."
        /\ Fold(SubSeq(f, i + 1, Len(f))) \in Extensions

\* one printed line
Msg(t) == [tag |-> t, text |-> <<>>, line |-> 0]

(***************************************************************************)
(* load_patterns                                                           *)
(***************************************************************************)
IsList(cfg) == cfg.kind = "list"

AllStr(cfg) == \A i \in 1..Len(cfg.items) : cfg.items[i].isstr

\* load_patterns that also takes the list under a mapping's key
load_patterns_AcceptsMapping ==
    IF ~fileExists THEN DEFAULT_PATTERNS
    ELSE IF ~yamlAvailable THEN DEFAULT_PATTERNS
    ELSE IF doc.kind = "parse_error" THEN DEFAULT_PATTERNS
    ELSE IF doc.kind \in {"list", "map"} /\ AllStr(doc)
         THEN [i \in 1..Len(doc.items) |-> doc.items[i].v]
         ELSE DEFAULT_PATTERNS

load_patterns ==
    IF ~fileExists THEN DEFAULT_PATTERNS
    ELSE IF ~yamlAvailable THEN DEFAULT_PATTERNS
    ELSE IF doc.kind = "parse_error" THEN DEFAULT_PATTERNS
    ELSE IF IsList(doc) /\ AllStr(doc)
         THEN [i \in 1..Len(doc.items) |-> doc.items[i].v]
         ELSE DEFAULT_PATTERNS

\* what load_patterns prints
load_warning ==
    IF ~fileExists THEN <<>>
    ELSE IF ~yamlAvailable THEN <<Msg("[WARN] PyYAML not installed")>>
    ELSE IF doc.kind = "parse_error" THEN <<Msg("[WARN] Failed to parse patterns file")>>
    ELSE IF IsList(doc) /\ AllStr(doc) THEN <<>>
         ELSE <<Msg("[WARN] patterns.yml format invalid")>>

(***************************************************************************)
(* get_staged_files                                                        *)
(***************************************************************************)
\* get_staged_files without the returncode test
get_staged_files_IgnoresReturncode == gitOut

get_staged_files == IF gitRc # 0 THEN <<>> ELSE gitOut

(***************************************************************************)
(* secrets_found and the report                                            *)
(***************************************************************************)
Keys(d) == [i \in 1..Len(d) |-> d[i].file]

\* d[f] = matches on a dict: a new key goes last, a known key keeps its place
DictSet(d, f, found) ==
    IF \E i \in 1..Len(d) : d[i].file = f
    THEN [i \in 1..Len(d) |-> IF d[i].file = f
                              THEN [file |-> f, findings |-> found]
                              ELSE d[i]]
    ELSE Append(d, [file |-> f, findings |-> found])

SnippetBound == 200

\* lines 93-96: the file's header, then one line per finding
FileReport(e) ==
    <<[tag |-> "File", text |-> e.file, line |-> 0]>> \o
    [j \in 1..Len(e.findings) |->
        [tag  |-> "Line",
         text |-> Slice(e.findings[j].snippet, 0, SnippetBound),
         line |-> e.findings[j].line]]

RECURSIVE Report(_)
Report(d) == IF d = <<>> THEN <<>> ELSE FileReport(Head(d)) \o Report(Tail(d))

(***************************************************************************)
(* The environments of a run                                               *)
(***************************************************************************)
Str(v) == [isstr |-> TRUE, v |-> v]

NonStr == [isstr |-> FALSE, v |-> "5"]

Doc(kind, key, items) == [kind |-> kind, key |-> key, items |-> items]

\* a patterns.yml that is a valid top-level list
ValidListDoc == Doc("list", "", <<Str("x"), Str("k")>>)

Docs ==
    { Doc("parse_error", "", <<>>),                 \* safe_load raises
      Doc("none", "", <<>>),                        \* empty document
      Doc("str", "", <<Str("k")>>),                 \* a scalar
      Doc("list", "", <<>>),                        \* []
      Doc("list", "", <<Str("k")>>),
      ValidListDoc,
      Doc("list", "", <<Str("(")>>),
      Doc("list", "", <<Str("k"), Str("(")>>),
      Doc("list", "", <<Str("k"), NonStr>>),
      Doc("map", "patterns", <<Str("x")>>),
      Doc("map", "regex_patterns", <<Str("x")>>) }

Paths ==
    { <<"a", ".", "p", "y">>,
      <<"b", ".", "Y", "M", "L">>,
      <<"c", ".", "b", "i", "n">>,
      <<"d", ".", "p", "y", "c">> }

CleanText == <<"x", "NL">>

SecretText == <<"x", "FF", "SP", "x", "NL", "SP", "k", "SP", "NL", "k">>

Contents == {Unreadable, File(CleanText), File(SecretText)}

(***************************************************************************)
(* main                                                                    *)
(***************************************************************************)
Init ==
    /\ fileExists \in BOOLEAN
    /\ yamlAvailable \in BOOLEAN
    /\ doc \in Docs
    /\ ~fileExists => doc = Doc("none", "", <<>>)
    /\ (fileExists /\ ~yamlAvailable) => doc = ValidListDoc
    /\ gitRc \in {0, 128}
    /\ gitOut \in SeqsUpTo(Paths, MaxStaged)
    /\ files \in [Range(gitOut) -> Contents]
    /\ pc = "load"
    /\ patterns = <<>>
    /\ compiled = <<>>
    /\ staged = <<>>
    /\ idx = 1
    /\ matches = <<>>
    /\ secrets_found = <<>>
    /\ scanned = <<>>
    /\ output = <<>>
    /\ exit_status = -1

\* line 78
LoadPatterns ==
    /\ pc = "load"
    /\ patterns' = load_patterns
    /\ output' = output \o load_warning
    /\ pc' = "compile"
    /\ UNCHANGED <<env, compiled, staged, idx, matches, secrets_found, scanned,
                   exit_status>>

\* an exception nobody catches: traceback on stderr, exit status 1
Crash ==
    /\ pc' = "crashed"
    /\ exit_status' = 1

\* line 79
Compile ==
    /\ pc = "compile"
    /\ IF \A i \in 1..Len(patterns) : Compiles(patterns[i])
       THEN /\ compiled' = [i \in 1..Len(patterns) |-> re_compile(patterns[i])]
            /\ pc' = "staged"
            /\ UNCHANGED exit_status
       ELSE /\ Crash
            /\ UNCHANGED compiled
    /\ UNCHANGED <<env, patterns, staged, idx, matches, secrets_found, scanned,
                   output>>

\* lines 81-82
GetStaged ==
    /\ pc = "staged"
    /\ staged' = get_staged_files
    /\ idx' = 1
    /\ secrets_found' = <<>>
    /\ pc' = "loop"
    /\ UNCHANGED <<env, patterns, compiled, matches, scanned, output, exit_status>>

\* lines 84-86: a path EXT_RE does not match
SkipFile ==
    /\ pc = "loop"
    /\ idx <= Len(staged)
    /\ ~EXT_RE_search(staged[idx])
    /\ idx' = idx + 1
    /\ UNCHANGED <<env, pc, patterns, compiled, staged, matches, secrets_found,
                   scanned, output, exit_status>>

\* lines 84-89: a path EXT_RE matches
ScanFile ==
    /\ pc = "loop"
    /\ idx <= Len(staged)
    /\ EXT_RE_search(staged[idx])
    /\ scanned' = Append(scanned, staged[idx])
    /\ LET f == staged[idx]
           r == scan_file(f, compiled)
       IN  IF r.raised
           THEN /\ Crash
                /\ UNCHANGED <<idx, matches, secrets_found>>
           ELSE /\ matches' = r.findings
                /\ secrets_found' = IF r.findings # <<>>
                                    THEN DictSet(secrets_found, f, r.findings)
                                    ELSE secrets_found
                /\ idx' = idx + 1
                /\ UNCHANGED <<pc, exit_status>>
    /\ UNCHANGED <<env, patterns, compiled, staged, output>>

\* lines 91-101
Verdict ==
    /\ pc = "loop"
    /\ idx > Len(staged)
    /\ IF secrets_found # <<>>
       THEN /\ output' = output \o <<Msg("[ALERT]")>> \o Report(secrets_found)
                                \o <<Msg("[BLOCKED]")>>
            /\ exit_status' = 1
       ELSE /\ output' = Append(output, Msg("[OK]"))
            /\ exit_status' = 0
    /\ pc' = "done"
    /\ UNCHANGED <<env, patterns, compiled, staged, idx, matches, secrets_found,
                   scanned>>

Next == LoadPatterns \/ Compile \/ GetStaged \/ SkipFile \/ ScanFile \/ Verdict

Spec == Init /\ [][Next]_vars

Terminated == pc \in {"done", "crashed"}

(***************************************************************************)
(* scan_file on its own: any short text, rules given as strings or as      *)
(* compiled pattern objects                                                *)
(***************************************************************************)
TextChars == {"k", "x", "SP", "NL", "FF"}

Rules == {re_string("k"), re_string("x"), re_compile("k")}

ScanPath == <<"a", ".", "p", "y">>

InitScan ==
    /\ fileExists = FALSE
    /\ yamlAvailable = FALSE
    /\ doc = Doc("none", "", <<>>)
    /\ gitRc = 0
    /\ gitOut = <<ScanPath>>
    /\ files \in [{ScanPath} -> {Unreadable} \cup
                                 {File(t) : t \in SeqsUpTo(TextChars, MaxTextLen)}]
    /\ pc = "call"
    /\ patterns = <<>>
    /\ compiled \in SeqsUpTo(Rules, MaxRules)
    /\ staged = <<ScanPath>>
    /\ idx = 1
    /\ matches = <<>>
    /\ secrets_found = <<>>
    /\ scanned = <<>>
    /\ output = <<>>
    /\ exit_status = -1

\* lines 63-75, one call
ScanCall ==
    /\ pc = "call"
    /\ scanned' = Append(scanned, ScanPath)
    /\ LET r == scan_file(ScanPath, compiled)
       IN  IF r.raised
           THEN pc' = "raised" /\ UNCHANGED matches
           ELSE pc' = "returned" /\ matches' = r.findings
    /\ UNCHANGED <<env, patterns, compiled, staged, idx, secrets_found, output,
                   exit_status>>

NextScan == ScanCall

SpecScan == InitScan /\ [][NextScan]_vars

\* main got as far as the for loop: staged holds git's answer
ReachedLoop == pc \in {"loop", "done"} \/ (pc = "crashed" /\ scanned # <<>>)

\* staged[j] has been dealt with by the for loop
Processed(j) == j \in 1..Len(staged) /\ j < idx

(***************************************************************************)
(* What the specification expects of a scan                                *)
(***************************************************************************)
\* the name ends in a dot and an eligible extension, whatever the case
EligibleName(p) ==
    \E ext \in Extensions :
        /\ Len(p) > Len(ext)
        /\ Fold(SubSeq(p, Len(p) - Len(ext), Len(p))) = <<".">> \o ext

\* newline characters before the match start, plus one
ExpectedLineNo(text, start) ==
    Cardinality({i \in 1..start : text[i] = "NL"}) + 1

\* the line, between newline characters, that holds the match start
ExpectedLine(text, start) ==
    LET before == {i \in 1..start : text[i] = "NL"}
        after  == {i \in (start + 1)..Len(text) : text[i] = "NL"}
        lo == IF before = {} THEN 0
              ELSE CHOOSE a \in before : \A b \in before : b <= a
        hi == IF after = {} THEN Len(text)
              ELSE (CHOOSE a \in after : \A b \in after : a <= b) - 1
    IN  Slice(text, lo, hi)

ExpectedFinding(text, start, rule) ==
    [line    |-> ExpectedLineNo(text, start),
     snippet |-> strip(ExpectedLine(text, start)),
     pat     |-> rule.src]

\* rule by rule in rule-set order, within a rule in match order
RECURSIVE ExpectedFrom(_, _, _)
ExpectedFrom(text, rules, i) ==
    IF i > Len(rules) THEN <<>>
    ELSE LET ms == Finditer(rules[i], text)
         IN  [j \in 1..Len(ms) |-> ExpectedFinding(text, ms[j], rules[i])]
             \o ExpectedFrom(text, rules, i + 1)

ExpectedFindings(f) ==
    IF files[f].readable THEN ExpectedFrom(files[f].text, compiled, 1) ELSE <<>>

\* an eligible staged file in which an active rule matches
HasSecret(f) == EligibleName(f) /\ ExpectedFindings(f) # <<>>

\* the staged files with a secret, each once, in the order first met
RECURSIVE FirstMet(_, _)
FirstMet(paths, seen) ==
    IF paths = <<>> THEN <<>>
    ELSE IF Head(paths) \in seen \/ ~HasSecret(Head(paths))
         THEN FirstMet(Tail(paths), seen)
         ELSE <<Head(paths)>> \o FirstMet(Tail(paths), seen \cup {Head(paths)})

Blocked == pc = "done" /\ exit_status = 1 /\ output # <<>>
           /\ output[Len(output)] = Msg("[BLOCKED]")

Passed == pc = "done" /\ exit_status = 0 /\ output # <<>>
          /\ output[Len(output)] = Msg("[OK]")

(***************************************************************************)
(* The claims                                                              *)
(***************************************************************************)
\* the configuration is absent, empty or malformed
ConfigUnusable ==
    \/ ~fileExists
    \/ ~yamlAvailable
    \/ doc.kind # "list"
    \/ doc.items = <<>>
    \/ ~AllStr(doc)

\* C1: with an absent, empty or malformed configuration load_patterns
\* returns exactly DEFAULT_PATTERNS, and the run reaches a verdict instead
\* of crashing.
C1_FallbackToDefaults ==
    ConfigUnusable =>
        /\ pc # "load" => patterns = DEFAULT_PATTERNS
        /\ pc # "crashed"

\* C2: main ends in block (exit status 1) exactly when secrets_found is not
\* empty and in pass (exit status 0) exactly when it is; every entry holds a
\* finding, so one finding in an eligible readable staged file is enough for
\* the run to end in block.
C2_FailClosedVerdict ==
    /\ pc = "done" =>
        /\ Blocked <=> secrets_found # <<>>
        /\ Passed <=> secrets_found = <<>>
        /\ \A i \in 1..Len(secrets_found) : secrets_found[i].findings # <<>>
    /\ (Terminated /\ ReachedLoop /\ \E j \in 1..Len(staged) : HasSecret(staged[j]))
        => Blocked

\* C3: scan_file is never called on a staged path whose name does not end
\* in an eligible extension, and such a path never enters secrets_found;
\* a path whose extension is eligible up to letter case is scanned.
C3_ExtensionFiltering ==
    /\ \A i \in 1..Len(scanned) : EligibleName(scanned[i])
    /\ \A i \in 1..Len(secrets_found) : EligibleName(secrets_found[i].file)
    /\ \A j \in 1..Len(staged) :
          (Processed(j) /\ EligibleName(staged[j])) => staged[j] \in Range(scanned)

\* an ineligible readable file holding a secret was passed over, and a path
\* with an upper-case extension went to scan_file
C3_Witness ==
    /\ \E j \in 1..Len(staged) :
          /\ Processed(j)
          /\ ~EligibleName(staged[j])
          /\ files[staged[j]] = File(SecretText)
    /\ \E i \in 1..Len(scanned) : Fold(scanned[i]) # scanned[i]

\* C4: for every match in a text, scan_file reports a finding whose line
\* number is the number of newlines before the match start plus one, a real
\* line of the text, and whose snippet is the stripped line that holds the
\* match start, not another line and not the empty string.
C4_LineAccuracy ==
    pc = "returned" =>
        /\ matches = ExpectedFindings(ScanPath)
        /\ \A j \in 1..Len(matches) :
              /\ matches[j].line \in 1..Len(splitlines(files[ScanPath].text))
              /\ matches[j].snippet # <<>>

\* C5: a pattern of the accepted list that does not compile is dropped; the
\* other rules are compiled and used and the run goes on to a verdict.
C5_CompileErrorsLocal ==
    (pc \notin {"load", "compile"} /\ \E i \in 1..Len(patterns) : ~Compiles(patterns[i]))
        => /\ pc # "crashed"
           /\ \A i \in 1..Len(patterns) :
                 Compiles(patterns[i]) => re_compile(patterns[i]) \in Range(compiled)

\* the configuration is a mapping whose patterns or regex_patterns key holds
\* a non-empty list of strings, and the parser can read it
MappingConfig ==
    /\ fileExists /\ yamlAvailable
    /\ doc.kind = "map" /\ doc.key \in {"patterns", "regex_patterns"}
    /\ doc.items # <<>> /\ AllStr(doc)

\* the configuration is a top-level non-empty list of strings
ListConfig ==
    /\ fileExists /\ yamlAvailable
    /\ doc.kind = "list" /\ doc.items # <<>> /\ AllStr(doc)

DocStrings == [i \in 1..Len(doc.items) |-> doc.items[i].v]

C7_NoShortCircuit ==
    (Terminated /\ ReachedLoop) =>
        /\ idx > Len(staged)
        /\ \A j \in 1..Len(staged) :
              HasSecret(staged[j]) =>
                 \E i \in 1..Len(secrets_found) :
                    /\ secrets_found[i].file = staged[j]
                    /\ Len(secrets_found[i].findings) = Len(ExpectedFindings(staged[j]))

\* C8: on an eligible staged path that cannot be read scan_file raises
\* nothing and returns no findings, the path gets no entry in secrets_found,
\* the paths after it are still scanned, and a run whose eligible paths are
\* all unreadable ends in pass.
C8_FileAccessErrorsSkipped ==
    ReachedLoop =>
        /\ \A j \in 1..Len(staged) :
              (Processed(j) /\ EligibleName(staged[j])) =>
                 /\ staged[j] \in Range(scanned)
                 /\ ~files[staged[j]].readable
                       => \A i \in 1..Len(secrets_found) :
                             secrets_found[i].file # staged[j]
        /\ pc = "crashed" => files[staged[idx]].readable
        /\ (Terminated /\ \A j \in 1..Len(staged) :
                             EligibleName(staged[j]) => ~files[staged[j]].readable)
              => Passed /\ secrets_found = <<>>

\* with rules loaded, two different unreadable paths were scanned one after
\* the other and the run passed
C8_Witness ==
    /\ Passed
    /\ compiled # <<>>
    /\ Len(scanned) = 2
    /\ scanned[1] # scanned[2]
    /\ \A i \in 1..Len(scanned) : ~files[scanned[i]].readable

\* C9: the decision and each file's findings do not depend on the order of
\* the staged list; the run lists the files that hold a secret in the order
\* first met, each with its findings rule by rule and, within a rule, in
\* match order.
C9_OrderIndependence ==
    (Terminated /\ ReachedLoop) =>
        /\ pc = "done"
        /\ Blocked <=> \E j \in 1..Len(staged) : HasSecret(staged[j])
        /\ Keys(secrets_found) = FirstMet(staged, {})
        /\ \A i \in 1..Len(secrets_found) :
              secrets_found[i].findings = ExpectedFindings(secrets_found[i].file)

\* C10: when git's query fails, get_staged_files returns the empty list, no
\* file is scanned, secrets_found stays empty and the run ends in pass, with
\* the output of a run that found its files clean.
C10_FailOpenOnGitFailure ==
    (gitRc # 0 /\ ReachedLoop) =>
        /\ staged = <<>>
        /\ scanned = <<>>
        /\ secrets_found = <<>>
        /\ Terminated =>
              /\ Passed
              /\ output = load_warning \o <<Msg("[OK]")>>

\* git failed while an eligible readable file with a secret was staged, the
\* built-in rules were active, and the run passed
C10_Witness ==
    /\ gitRc # 0
    /\ Passed
    /\ compiled # <<>>
    /\ \E j \in 1..Len(gitOut) :
          EligibleName(gitOut[j]) /\ files[gitOut[j]] = File(SecretText)

====
